---------------------------- MODULE Spec2Model ----------------------------
(***************************************************************************)
(* A model of the "beyond" board library: Dimension (axis labels and their *)
(* resolution), BoardState (the keyed store with partial-key resolution    *)
(* and broadcast assignment), BoardAxis (the lazy view), BoardInsight (the *)
(* resolver-keyed projection) and the Board facade.                        *)
(*                                                                         *)
(* Python strings are sequences of one-character strings, so that          *)
(* formatting (str(idx), "{name}_{idx}"), case folding and the fact that a *)
(* str is a collections.abc.Sequence are all modelled by what they do.     *)
(***************************************************************************)
EXTENDS Integers, Sequences, FiniteSets, TLC

VARIABLES dims, cells, op, result, nops

vars == <<dims, cells, op, result, nops>>

(***************************************************************************)
(* Bounds of the model.                                                    *)
(***************************************************************************)
\* size of every axis of the generic boards Board(n, n) and Board(n, n, n)
GenSize == 2
\* number of operations performed on one board
MaxOps == 2

(***************************************************************************)
(* Python values.                                                          *)
(***************************************************************************)
\* a key component: an int or a str
IntKey(n) == [isStr |-> FALSE, n |-> n, s |-> <<>>]
StrKey(s) == [isStr |-> TRUE, n |-> 0, s |-> s]

\* a key: a tuple of components, or a bare component (not a tuple)
TupleKey(comps) == [isTuple |-> TRUE, comps |-> comps]
BareKey(comp) == [isTuple |-> FALSE, comps |-> <<comp>>]

\* a value assigned to the board: an opaque object (not a Sequence), a str
\* (a Sequence of one-character strs) or a list (a Sequence of values)
Obj(n) == [t |-> "obj", n |-> n, s |-> <<>>, items |-> <<>>]
Str(s) == [t |-> "str", n |-> 0, s |-> s, items |-> <<>>]
List(items) == [t |-> "list", n |-> 0, s |-> <<>>, items |-> items]
None == [t |-> "none", n |-> 0, s |-> <<>>, items |-> <<>>]

\* isinstance(value, Sequence)
IsSequence(value) == value.t \in {"str", "list"}

\* len(value) of a Sequence
SeqLen(value) == IF value.t = "str" THEN Len(value.s) ELSE Len(value.items)

\* value[i] of a Sequence, i counted from 0; a str yields one-character strs
SeqItem(value, i) ==
    IF value.t = "str" THEN Str(<<value.s[i + 1]>>) ELSE value.items[i + 1]

\* [value] * n
Repeat(value, n) == List([i \in 1..n |-> value])

Digits == <<"0", "1", "2", "3", "4", "5", "6", "7", "8", "9">>

\* str(n) of an int
RECURSIVE IntToStr(_)
IntToStr(n) ==
    IF n < 0 THEN <<"-">> \o IntToStr(0 - n)
    ELSE IF n < 10 THEN <<Digits[n + 1]>>
    ELSE IntToStr(n \div 10) \o <<Digits[(n % 10) + 1]>>

UpperCase ==
    <<"A", "B", "C", "D", "E", "F", "G", "H", "I", "J", "K", "L", "M",
      "N", "O", "P", "Q", "R", "S", "T", "U", "V", "W", "X", "Y", "Z">>
LowerCase ==
    <<"a", "b", "c", "d", "e", "f", "g", "h", "i", "j", "k", "l", "m",
      "n", "o", "p", "q", "r", "s", "t", "u", "v", "w", "x", "y", "z">>

\* str.casefold on ASCII text
CaseFoldChar(c) ==
    IF \E k \in 1..Len(UpperCase) : UpperCase[k] = c
    THEN LowerCase[CHOOSE k \in 1..Len(UpperCase) : UpperCase[k] = c]
    ELSE c
CaseFold(s) == [k \in 1..Len(s) |-> CaseFoldChar(s[k])]

(***************************************************************************)
(* Dimension and its subclasses.                                           *)
(***************************************************************************)
ChessDefaultSize == 8
ChessFilesLetters == <<"a", "b", "c", "d", "e", "f", "g", "h">>

DefaultName(cls) ==
    CASE cls = "ChessFiles" -> <<"f", "i", "l", "e", "s">>
      [] cls = "ChessRanks" -> <<"r", "a", "n", "k", "s">>
      [] cls = "Rows" -> <<"r", "o", "w", "s">>
      [] cls = "Columns" -> <<"c", "o", "l", "u", "m", "n", "s">>

\* create_axis_name of Dimension, ChessRanks and ChessFiles
CreateAxisName(cls, name, idx) ==
    CASE cls = "ChessRanks" -> IntToStr(idx)
      [] cls = "ChessFiles" -> <<ChessFilesLetters[idx + 1]>>
      [] OTHER -> name \o <<"_">> \o IntToStr(idx)

\* setup(): get_axis_name(idx) for idx in range(size), each doing
\* index.setdefault(name, idx), so the first index of a name wins
SetupIndex(cls, name, size) ==
    LET names == {CreateAxisName(cls, name, idx) : idx \in 0..(size - 1)}
    IN  [l \in names |->
            CHOOSE idx \in 0..(size - 1) :
                /\ CreateAxisName(cls, name, idx) = l
                /\ \A j \in 0..(size - 1) :
                       CreateAxisName(cls, name, j) = l => idx <= j]

\* Dimension.__init__ with both name and size resolved
NewDimension(cls, name, size) ==
    [cls |-> cls, name |-> name, size |-> size,
     index |-> SetupIndex(cls, name, size)]

\* Dimension.with_size
WithSize(size) == NewDimension("Dimension", <<"d", "i", "m">>, size)

\* square_shape(size)
SquareShape(size) ==
    <<NewDimension("Rows", DefaultName("Rows"), size),
      NewDimension("Columns", DefaultName("Columns"), size)>>

\* ChessDimension.default_shape(): size None falls back to default_size
ChessDefaultShape ==
    <<NewDimension("ChessFiles", DefaultName("ChessFiles"), ChessDefaultSize),
      NewDimension("ChessRanks", DefaultName("ChessRanks"), ChessDefaultSize)>>

\* the outcome of a resolution: an index, or the exception raised
Resolved(idx) == [err |-> "none", idx |-> idx]
Raised(err) == [err |-> err, idx |-> 0]

\* Dimension.get_axis_index
DimensionGetAxisIndex(dim, isStr, n, s) ==
    IF ~isStr THEN Resolved(n)
    ELSE IF s \in DOMAIN dim.index THEN Resolved(dim.index[s])
    ELSE Raised("ValueError")

\* a variant of ChessFiles.get_axis_index that looks a str up as given
ChessFilesGetAxisIndexAsGiven(dim, isStr, n, s) ==
    DimensionGetAxisIndex(dim, isStr, n, s)

\* ChessFiles.get_axis_index: casefold a str, then the base lookup
ChessFilesGetAxisIndex(dim, isStr, n, s) ==
    DimensionGetAxisIndex(dim, isStr, n, IF isStr THEN CaseFold(s) ELSE s)

\* dim.get_axis_index(name), dispatched on the class of dim
GetAxisIndex(dim, comp) ==
    IF dim.cls = "ChessFiles"
    THEN ChessFilesGetAxisIndex(dim, comp.isStr, comp.n, comp.s)
    ELSE DimensionGetAxisIndex(dim, comp.isStr, comp.n, comp.s)

(***************************************************************************)
(* BoardState: the store.                                                  *)
(***************************************************************************)
\* self.ndim
Ndim(shape) == Len(shape)

\* the outcome of _validate_key_ndim: (indices, ndim), or the exception
Validated(indices) == [err |-> "none", key |-> indices, ndim |-> Len(indices)]
Invalid(err) == [err |-> err, key |-> <<>>, ndim |-> 0]

\* lines 51-53 of the loop body: a negative index gets the size added once,
\* and only an index >= size is rejected
NormalizeIndex(index, size) ==
    LET wrapped == IF index < 0 THEN index + size ELSE index
    IN  IF wrapped >= size THEN Raised("IndexError") ELSE Resolved(wrapped)

\* the loop of _validate_key_ndim over the key's positions, from position
\* pos (counted from 1); the first failing component raises
RECURSIVE ResolveIndices(_, _, _)
ResolveIndices(shape, comps, pos) ==
    IF pos > Len(comps) THEN Validated(<<>>)
    ELSE LET dim == shape[pos]
             named == GetAxisIndex(dim, comps[pos])
             index == NormalizeIndex(named.idx, dim.size)
         IN  IF named.err # "none" THEN Invalid(named.err)
             ELSE IF index.err # "none" THEN Invalid(index.err)
             ELSE LET rest == ResolveIndices(shape, comps, pos + 1)
                  IN  IF rest.err # "none" THEN rest
                      ELSE Validated(<<index.idx>> \o rest.key)

\* a variant of _validate_key_ndim that resolves the components it has
\* dimensions for before it looks at the length of the key
ValidateKeyNdimLate(shape, key, allow_insights) ==
    LET comps == key.comps
        fitting == IF Len(comps) > Ndim(shape)
                   THEN SubSeq(comps, 1, Ndim(shape)) ELSE comps
        valid == ResolveIndices(shape, fitting, 1)
    IN  IF valid.err # "none" THEN valid
        ELSE IF Len(comps) > Ndim(shape) THEN Invalid("IndexError")
        ELSE IF ~allow_insights /\ Len(comps) < Ndim(shape)
        THEN Invalid("NotImplementedError")
        ELSE valid

\* BoardState._validate_key_ndim: a key that is not a tuple becomes a
\* 1-tuple; the length check comes before any component is resolved
ValidateKeyNdim(shape, key, allow_insights) ==
    LET comps == key.comps
    IN  IF Len(comps) > Ndim(shape) THEN Invalid("IndexError")
        ELSE IF ~allow_insights /\ Len(comps) < Ndim(shape)
        THEN Invalid("NotImplementedError")
        ELSE ResolveIndices(shape, comps, 1)

\* self.data[key] = value
Put(data, key, value) ==
    [k \in (DOMAIN data) \cup {key} |-> IF k = key THEN value ELSE data[k]]

\* a tuple of ints used as a key
IntsKey(ints) == TupleKey([k \in 1..Len(ints) |-> IntKey(ints[k])])

\* the outcome of a set: the data afterwards, and the exception if any
Stored(data) == [cells |-> data, err |-> "none"]
Failed(data, err) == [cells |-> data, err |-> err]

\* BoardState.__setitem__; BroadcastLoop is its loop
\*     for i in range(dim.size): self[(*path, i)] = value[i]
\* which stops at the first exception and keeps what was written before it
RECURSIVE SetItem(_, _, _, _), BroadcastLoop(_, _, _, _, _, _)
SetItem(data, shape, key, value) ==
    LET valid == ValidateKeyNdim(shape, key, TRUE)
    IN  IF valid.err # "none" THEN Failed(data, valid.err)
        ELSE IF valid.ndim = Ndim(shape)
        THEN Stored(Put(data, valid.key, value))
        ELSE LET path == valid.key
                 dim == shape[valid.ndim + 1]
                 seq == IF ~IsSequence(value) THEN Repeat(value, dim.size)
                        ELSE value
             IN  IF SeqLen(seq) # dim.size THEN Failed(data, "ValueError")
                 ELSE BroadcastLoop(data, shape, path, seq, 0, dim.size)
BroadcastLoop(data, shape, path, seq, i, size) ==
    IF i >= size THEN Stored(data)
    ELSE LET one == SetItem(data, shape, IntsKey(path \o <<i>>),
                            SeqItem(seq, i))
         IN  IF one.err # "none" THEN one
             ELSE BroadcastLoop(one.cells, shape, path, seq, i + 1, size)

\* what an indexing expression evaluates to: a leaf value, a BoardAxis
\* (its path, the position in the shape of its dim, its read_only flag),
\* or an exception; Done is a statement that completed
Leaf(value) ==
    [kind |-> "value", err |-> "none", v |-> value, path |-> <<>>,
     dim |-> 0, read_only |-> FALSE]
Error(err) ==
    [kind |-> "error", err |-> err, v |-> None, path |-> <<>>,
     dim |-> 0, read_only |-> FALSE]
Done ==
    [kind |-> "done", err |-> "none", v |-> None, path |-> <<>>,
     dim |-> 0, read_only |-> FALSE]
NoResult ==
    [kind |-> "start", err |-> "none", v |-> None, path |-> <<>>,
     dim |-> 0, read_only |-> FALSE]

\* BoardAxis.__init__
NewBoardAxis(path, dimPos, read_only) ==
    [kind |-> "view", err |-> "none", v |-> None, path |-> path,
     dim |-> dimPos, read_only |-> read_only]

\* a variant of __getitem__ whose views exist only over stored cells
GetItemOccupied(data, shape, key) ==
    LET valid == ValidateKeyNdim(shape, key, TRUE)
    IN  IF valid.err # "none" THEN Error(valid.err)
        ELSE IF valid.ndim = Ndim(shape)
        THEN IF valid.key \in DOMAIN data THEN Leaf(data[valid.key])
             ELSE Error("KeyError")
        ELSE IF \E c \in DOMAIN data :
                    \A k \in 1..valid.ndim : c[k] = valid.key[k]
        THEN NewBoardAxis(valid.key, valid.ndim, FALSE)
        ELSE Error("KeyError")

\* BoardState.__getitem__
GetItem(data, shape, key) ==
    LET valid == ValidateKeyNdim(shape, key, TRUE)
    IN  IF valid.err # "none" THEN Error(valid.err)
        ELSE IF valid.ndim = Ndim(shape)
        THEN IF valid.key \in DOMAIN data THEN Leaf(data[valid.key])
             ELSE Error("KeyError")
        ELSE NewBoardAxis(valid.key, valid.ndim, FALSE)

(***************************************************************************)
(* BoardAxis: the view.                                                    *)
(***************************************************************************)
\* BoardAxis._resolve_index: only a str goes through the dimension
AxisResolveIndex(dim, comp) ==
    IF comp.isStr THEN GetAxisIndex(dim, comp) ELSE Resolved(comp.n)

\* idx after "if idx < 0: idx += self.size"
AxisWrap(idx, size) == IF idx < 0 THEN idx + size ELSE idx

\* BoardAxis.__getitem__
AxisGetItem(data, shape, view, comp) ==
    LET dim == shape[view.dim + 1]
        named == AxisResolveIndex(dim, comp)
    IN  IF named.err # "none" THEN Error(named.err)
        ELSE GetItem(data, shape,
                     IntsKey(view.path \o <<AxisWrap(named.idx, dim.size)>>))

\* BoardAxis.__setitem__
AxisSetItem(data, shape, view, comp, value) ==
    LET dim == shape[view.dim + 1]
        named == AxisResolveIndex(dim, comp)
    IN  IF view.read_only THEN Failed(data, "TypeError")
        ELSE IF named.err # "none" THEN Failed(data, named.err)
        ELSE SetItem(data, shape,
                     IntsKey(view.path \o <<AxisWrap(named.idx, dim.size)>>),
                     value)

(***************************************************************************)
(* BoardInsight: the resolver-keyed projection.                            *)
(***************************************************************************)
\* BoardInsight.__init__
NewBoardInsight(resolver, read_only) ==
    [resolver |-> resolver, read_only |-> read_only]

\* BoardInsight.__getitem__: self.resolver[key] raises KeyError
InsightGetItem(data, shape, ins, ikey) ==
    IF ikey \notin DOMAIN ins.resolver THEN Error("KeyError")
    ELSE GetItem(data, shape, ins.resolver[ikey])

\* a variant of BoardInsight.__setitem__ that tests read_only after the
\* resolver lookup
InsightSetItemLookupFirst(data, shape, ins, ikey, value) ==
    IF ikey \notin DOMAIN ins.resolver THEN Failed(data, "KeyError")
    ELSE IF ins.read_only THEN Failed(data, "TypeError")
    ELSE SetItem(data, shape, ins.resolver[ikey], value)

\* BoardInsight.__setitem__: the read_only test comes first
InsightSetItem(data, shape, ins, ikey, value) ==
    IF ins.read_only THEN Failed(data, "TypeError")
    ELSE IF ikey \notin DOMAIN ins.resolver THEN Failed(data, "KeyError")
    ELSE SetItem(data, shape, ins.resolver[ikey], value)

(***************************************************************************)
(* Board: the facade.                                                      *)
(***************************************************************************)
\* Board.__getitem__ and Board.__setitem__ forward to the state
BoardGetItem(data, shape, key) == GetItem(data, shape, key)
BoardSetItem(data, shape, key, value) == SetItem(data, shape, key, value)

\* Board.__init__ with bare sizes: each becomes Dimension.with_size(size)
BoardOfSizes(sizes) == [k \in 1..Len(sizes) |-> WithSize(sizes[k])]

\* ChessBoard(): no dims given, so DEFAULT_SHAPE
ChessBoardShape == ChessDefaultShape

(***************************************************************************)
(* The boards that are built and the inputs the operations are given.      *)
(***************************************************************************)
\* tic-tac-toe style Board(*square_shape(n)), Board(n, n, n), ChessBoard()
Boards ==
    {SquareShape(GenSize), BoardOfSizes(<<GenSize, GenSize, GenSize>>),
     ChessBoardShape}

IsChess(shape) == shape[1].cls = "ChessFiles"

\* the label of the last index of the axis at position k
LastLabel(shape, k) ==
    StrKey(CreateAxisName(shape[k].cls, shape[k].name, shape[k].size - 1))

\* key components given alone (board[c], axis[c]): ints at and beyond both
\* ends of the axis, labels, an unknown label; on the chess board the
\* file "e" in both cases and the rank "4"
Comps(shape) ==
    LET size == shape[1].size
    IN  IF IsChess(shape)
        THEN {IntKey(n) : n \in {0 - (size + 1), -1, 4, size}}
             \cup {StrKey(<<"e">>), StrKey(<<"E">>), StrKey(<<"4">>),
                   StrKey(<<"z">>)}
        ELSE {IntKey(n) : n \in {0 - (size + 1), -1, 0, size}}
             \cup {LastLabel(shape, k) : k \in 1..Len(shape)}
             \cup {StrKey(<<"z">>)}

\* the components given at position k of a tuple key: a valid negative
\* index, one below -size (after the first position of a board of three
\* dimensions) and, on boards of two dimensions, a label
TupleComps(shape, k) ==
    LET size == shape[k].size
    IN  IF IsChess(shape)
        THEN IF k = 1
             THEN {StrKey(<<"E">>), IntKey(0 - (size + 1))}
             ELSE {StrKey(<<"4">>), IntKey(0 - (size + 1)), IntKey(-1)}
        ELSE IF Ndim(shape) <= 2
        THEN {IntKey(-1), IntKey(0 - (size + 1)), LastLabel(shape, k)}
        ELSE IF k = 1 THEN {IntKey(-1)}
        ELSE {IntKey(-1), IntKey(0 - (size + 1))}

TuplesOfLen(shape, n) ==
    {t \in [1..n -> UNION {TupleComps(shape, k) : k \in 1..n}] :
        \A k \in 1..n : t[k] \in TupleComps(shape, k)}

\* keys longer than the shape: in range, out of range, unknown labels
LongKeys(shape) ==
    {TupleKey([k \in 1..(Ndim(shape) + 1) |-> c]) :
        c \in {IntKey(0), IntKey(shape[1].size), StrKey(<<"z">>)}}

\* keys: bare components, a 1-tuple, tuples of length 2 to ndim, and
\* tuples of length ndim + 1
Keys(shape) ==
    {BareKey(c) : c \in Comps(shape)}
    \cup {TupleKey(<<IntKey(-1)>>)}
    \cup {TupleKey(t) :
             t \in UNION {TuplesOfLen(shape, n) : n \in 2..Ndim(shape)}}
    \cup LongKeys(shape)

\* values: an object, a one-character str, a list as long as an axis, a
\* list one shorter, and a list of lists one of which is short
GoodList(size) == List([k \in 1..size |-> Obj(k)])
ShortList(size) == List([k \in 1..(size - 1) |-> Obj(k)])
Values(shape) ==
    LET size == shape[1].size
    IN  {Obj(1), Str(<<"O">>), GoodList(size), ShortList(size),
         List([k \in 1..size |->
                  IF k = 2 THEN ShortList(size) ELSE GoodList(size)])}

\* the resolver of the insights: a full coordinate and a partial one
Resolver(shape) ==
    [ikey \in {"corner", "row"} |->
        IF ikey = "corner"
        THEN TupleKey([k \in 1..Len(shape) |-> IntKey(-1)])
        ELSE BareKey(IntKey(0))]
InsightKeys == {"corner", "row", "absent"}

(***************************************************************************)
(* The state machine: one board, and the operations performed on it.       *)
(***************************************************************************)
\* the operation just performed, with its inputs
Operation(name, key, comp, ikey, read_only, value) ==
    [name |-> name, key |-> key, comp |-> comp, ikey |-> ikey,
     read_only |-> read_only, value |-> value]
NoKey == TupleKey(<<>>)
NoComp == IntKey(0)

Outcome(stored) == IF stored.err = "none" THEN Done ELSE Error(stored.err)

\* Board.__init__: BoardState(dims) with empty data
Init ==
    /\ dims \in Boards
    /\ cells = [k \in {} |-> None]
    /\ op = Operation("init", NoKey, NoComp, "", FALSE, None)
    /\ result = NoResult
    /\ nops = 0

\* board[key]
BoardGet(key) ==
    /\ nops < MaxOps
    /\ result' = BoardGetItem(cells, dims, key)
    /\ op' = Operation("get", key, NoComp, "", FALSE, None)
    /\ nops' = nops + 1
    /\ UNCHANGED <<dims, cells>>

\* board[key] = value
BoardSet(key, value) ==
    /\ nops < MaxOps
    /\ LET stored == BoardSetItem(cells, dims, key, value)
       IN  /\ cells' = stored.cells
           /\ result' = Outcome(stored)
    /\ op' = Operation("set", key, NoComp, "", FALSE, value)
    /\ nops' = nops + 1
    /\ UNCHANGED dims

\* axis[comp], on the BoardAxis the last indexing returned
AxisGet(comp) ==
    /\ nops < MaxOps
    /\ result.kind = "view"
    /\ result' = AxisGetItem(cells, dims, result, comp)
    /\ op' = Operation("axis_get", IntsKey(result.path), comp, "", FALSE, None)
    /\ nops' = nops + 1
    /\ UNCHANGED <<dims, cells>>

\* axis[comp] = value, on the BoardAxis the last indexing returned
AxisSet(comp, value) ==
    /\ nops < MaxOps
    /\ result.kind = "view"
    /\ LET stored == AxisSetItem(cells, dims, result, comp, value)
       IN  /\ cells' = stored.cells
           /\ result' = Outcome(stored)
    /\ op' = Operation("axis_set", IntsKey(result.path), comp, "", FALSE, value)
    /\ nops' = nops + 1
    /\ UNCHANGED dims

\* BoardInsight(state=board.state, resolver=..., read_only=...)[ikey]
InsightGet(ikey, read_only) ==
    /\ nops < MaxOps
    /\ result' = InsightGetItem(cells, dims,
                     NewBoardInsight(Resolver(dims), read_only), ikey)
    /\ op' = Operation("insight_get", NoKey, NoComp, ikey, read_only, None)
    /\ nops' = nops + 1
    /\ UNCHANGED <<dims, cells>>

\* BoardInsight(state=board.state, resolver=..., read_only=...)[ikey] = value
InsightSet(ikey, read_only, value) ==
    /\ nops < MaxOps
    /\ LET stored == InsightSetItem(cells, dims,
                         NewBoardInsight(Resolver(dims), read_only), ikey,
                         value)
       IN  /\ cells' = stored.cells
           /\ result' = Outcome(stored)
    /\ op' = Operation("insight_set", NoKey, NoComp, ikey, read_only, value)
    /\ nops' = nops + 1
    /\ UNCHANGED dims

\* the inputs given to a board, by its shape
KeysOf == [shape \in Boards |-> Keys(shape)]
ValuesOf == [shape \in Boards |-> Values(shape)]
CompsOf == [shape \in Boards |-> Comps(shape)]

Next ==
    \/ \E key \in KeysOf[dims] : BoardGet(key)
    \/ \E key \in KeysOf[dims], value \in ValuesOf[dims] : BoardSet(key, value)
    \/ \E comp \in CompsOf[dims] : AxisGet(comp)
    \/ \E comp \in CompsOf[dims], value \in ValuesOf[dims] :
           AxisSet(comp, value)
    \/ \E ikey \in InsightKeys, read_only \in BOOLEAN :
           InsightGet(ikey, read_only)
    \/ \E ikey \in InsightKeys, read_only \in BOOLEAN,
          value \in ValuesOf[dims] : InsightSet(ikey, read_only, value)

Spec == Init /\ [][Next]_vars

(***************************************************************************)
(* The vocabulary of the properties: what a key is meant to address.       *)
(***************************************************************************)
\* label_for(i): the canonical label of index i
LabelFor(dim, i) == CreateAxisName(dim.cls, dim.name, i)

ToUpperChar(c) ==
    IF \E k \in 1..Len(LowerCase) : LowerCase[k] = c
    THEN UpperCase[CHOOSE k \in 1..Len(LowerCase) : LowerCase[k] = c]
    ELSE c
ToUpper(s) == [k \in 1..Len(s) |-> ToUpperChar(s[k])]

\* the spellings of index i of a dimension: i, the negative index i - size,
\* the canonical label, and for chess files the label in upper case
Spellings(dim, i) ==
    {IntKey(i), IntKey(i - dim.size), StrKey(LabelFor(dim, i))}
    \cup IF dim.cls = "ChessFiles" THEN {StrKey(ToUpper(LabelFor(dim, i)))}
         ELSE {}

Spells(dim, comp, i) == comp \in Spellings(dim, i)
InRange(dim, comp) == \E i \in 0..(dim.size - 1) : Spells(dim, comp, i)
Coordinate(dim, comp) == CHOOSE i \in 0..(dim.size - 1) : Spells(dim, comp, i)

\* an int that is outside [0, size) also after size was added once to a
\* negative value
OutOfBounds(dim, comp) == ~comp.isStr /\ ~InRange(dim, comp)

\* a key no longer than the shape, all of whose components are in range
ValidKey(shape, key) ==
    /\ Len(key.comps) <= Ndim(shape)
    /\ \A k \in 1..Len(key.comps) : InRange(shape[k], key.comps[k])
PartialKey(shape, key) ==
    /\ ValidKey(shape, key)
    /\ Len(key.comps) >= 1
    /\ Len(key.comps) < Ndim(shape)
FullKey(shape, key) == ValidKey(shape, key) /\ Len(key.comps) = Ndim(shape)

\* the coordinates a valid key stands for
Normalized(shape, key) ==
    [k \in 1..Len(key.comps) |-> Coordinate(shape[k], key.comps[k])]

\* all full coordinate tuples of a shape, and those under a prefix
AllCoords(shape) ==
    {c \in [1..Len(shape) -> 0..(shape[1].size - 1)] :
        \A k \in 1..Len(shape) : c[k] < shape[k].size}
IsPrefix(p, c) == Len(p) <= Len(c) /\ \A k \in 1..Len(p) : p[k] = c[k]
Covers(shape, key, c) ==
    ValidKey(shape, key) /\ IsPrefix(Normalized(shape, key), c)

\* a single leaf value: an object or a one-character mark
IsSingle(value) ==
    value.t = "obj" \/ (value.t = "str" /\ Len(value.s) = 1)

\* a list whose length differs from the size of the axis it is spread over,
\* at this level or at a nested level the broadcast reaches; k is the number
\* of coordinates already fixed
RECURSIVE HasWrongLength(_, _, _)
HasWrongLength(shape, value, k) ==
    /\ value.t = "list"
    /\ k < Ndim(shape)
    /\ \/ Len(value.items) # shape[k + 1].size
       \/ \E i \in 1..Len(value.items) :
              HasWrongLength(shape, value.items[i], k + 1)

StoreOps == {"get", "set"}
NonEmpty == DOMAIN cells # {}

(***************************************************************************)
(* C1                                                                      *)
(***************************************************************************)
\* C1: a store get or set with a key no longer than ndim, in which some
\* integer component is still outside [0, size) after the size was added
\* once to a negative value (and no label is unknown), fails with
\* IndexError; and index -1 addresses the same cell as index size - 1.
C1_OutOfBoundsRaisesIndexError ==
    /\ ( /\ op.name \in StoreOps
         /\ Len(op.key.comps) <= Ndim(dims)
         /\ \A k \in 1..Len(op.key.comps) :
                InRange(dims[k], op.key.comps[k])
                \/ OutOfBounds(dims[k], op.key.comps[k])
         /\ \E k \in 1..Len(op.key.comps) :
                OutOfBounds(dims[k], op.key.comps[k]) )
       => result = Error("IndexError")
    /\ BoardGetItem(cells, dims, BareKey(IntKey(-1)))
           = BoardGetItem(cells, dims, BareKey(IntKey(dims[1].size - 1)))

(***************************************************************************)
(* C2                                                                      *)
(***************************************************************************)
\* C2: every key present in the cells mapping is a tuple of length ndim
\* whose coordinates are integers in [0, size) of their dimension.
C2_CellKeysNormalized ==
    \A c \in DOMAIN cells :
        /\ Len(c) = Ndim(dims)
        /\ \A k \in 1..Len(c) : c[k] >= 0 /\ c[k] < dims[k].size

(***************************************************************************)
(* C3                                                                      *)
(***************************************************************************)
\* C3: a set with a partial key and a list of the wrong length, at the top
\* level or at a nested level of the broadcast, fails with ValueError and
\* leaves the cells mapping as it was.
C3_MismatchLeavesCellsUntouched ==
    [][ ( /\ op'.name = "set"
          /\ PartialKey(dims, op'.key)
          /\ HasWrongLength(dims, op'.value, Len(op'.key.comps)) )
        => (result' = Error("ValueError") /\ cells' = cells) ]_vars

(***************************************************************************)
(* C4                                                                      *)
(***************************************************************************)
\* C4: a set of a single leaf value (an object, or a one-character str such
\* as "O") under a partial key succeeds, has the effect of setting
\* [value] * size, and leaves every cell under the prefix holding the value.
C4_SingleValueBroadcasts ==
    [][ ( /\ op'.name = "set"
          /\ PartialKey(dims, op'.key)
          /\ IsSingle(op'.value) )
        => /\ result' = Done
           /\ cells' = BoardSetItem(cells, dims, op'.key,
                  Repeat(op'.value, dims[Len(op'.key.comps) + 1].size)).cells
           /\ \A c \in AllCoords(dims) :
                  Covers(dims, op'.key, c)
                  => (c \in DOMAIN cells' /\ cells'[c] = op'.value) ]_vars

(***************************************************************************)
(* C5                                                                      *)
(***************************************************************************)
\* board[i][j]
TwoStep(i, j) ==
    LET first == BoardGetItem(cells, dims, BareKey(i))
    IN  IF first.kind = "view" THEN AxisGetItem(cells, dims, first, j)
        ELSE first

\* board[(i, j)]
OneStep(i, j) == BoardGetItem(cells, dims, TupleKey(<<i, j>>))

\* C5: on a board with ndim >= 2, board[i][j] and board[(i, j)] yield the
\* same value or view, or both fail, for all key components i and j.
C5_ViewTransparency ==
    Ndim(dims) >= 2
    => \A i \in Comps(dims), j \in Comps(dims) :
           \/ TwoStep(i, j) = OneStep(i, j)
           \/ (TwoStep(i, j).kind = "error" /\ OneStep(i, j).kind = "error")

(***************************************************************************)
(* C6                                                                      *)
(***************************************************************************)
\* C6: after set(c, v) with a valid full key, get(c) returns v; and a value
\* stored at c is still there after any store operation that is not a set
\* covering c.
C6_WriteReadRoundTrip ==
    [][ \A c \in AllCoords(dims) :
          /\ ( /\ op'.name = "set"
               /\ FullKey(dims, op'.key)
               /\ Normalized(dims, op'.key) = c )
             => BoardGetItem(cells', dims, IntsKey(c)) = Leaf(op'.value)
          /\ ( /\ c \in DOMAIN cells
               /\ op'.name \in StoreOps
               /\ ~(op'.name = "set" /\ Covers(dims, op'.key, c)) )
             => (c \in DOMAIN cells' /\ cells'[c] = cells[c]) ]_vars

(***************************************************************************)
(* C7                                                                      *)
(***************************************************************************)
\* a key that is zero before position k and comp at position k
KeyAt(k, comp) ==
    TupleKey([j \in 1..k |-> IF j = k THEN comp ELSE IntKey(0)])

\* all spellings of a full coordinate tuple
SpellingsOfCoord(shape, c) ==
    {t \in [1..Len(c) -> UNION {Spellings(shape[k], c[k]) : k \in 1..Len(c)}] :
        \A k \in 1..Len(c) : t[k] \in Spellings(shape[k], c[k])}

\* for every dimension of a shape and every index i in [0, size):
\* resolve(label_for(i)) and resolve(i) are i, and every spelling of i
\* normalizes to coordinate i
SpellingsResolve(shape) ==
    \A k \in 1..Ndim(shape) : \A i \in 0..(shape[k].size - 1) :
        /\ GetAxisIndex(shape[k], StrKey(LabelFor(shape[k], i))) = Resolved(i)
        /\ GetAxisIndex(shape[k], IntKey(i)) = Resolved(i)
        /\ \A comp \in Spellings(shape[k], i) :
               LET valid == ValidateKeyNdim(shape, KeyAt(k, comp), TRUE)
               IN  valid.err = "none" /\ valid.key[k] = i
SpellingsResolveOn == [shape \in Boards |-> SpellingsResolve(shape)]

\* C7: for every dimension and index i in [0, size), resolve(label_for(i))
\* and resolve(i) are i; every spelling of i (i, i - size, the label, for
\* chess files in either case) normalizes to coordinate i; and a value set
\* through one spelling of a full key is returned by get through any other.
C7_SpellingsAgree ==
    /\ SpellingsResolveOn[dims]
    /\ (op.name = "set" /\ FullKey(dims, op.key))
       => /\ result = Done
          /\ \A t \in SpellingsOfCoord(dims, Normalized(dims, op.key)) :
                 BoardGetItem(cells, dims, TupleKey(t)) = Leaf(op.value)

\* a value was set on the chess board through labels
C7_Witness ==
    /\ IsChess(dims)
    /\ op.name = "set"
    /\ op.key = TupleKey(<<StrKey(<<"E">>), StrKey(<<"4">>)>>)
    /\ result = Done
    /\ <<4, 4>> \in DOMAIN cells

(***************************************************************************)
(* C8                                                                      *)
(***************************************************************************)
\* C8: a set through a read-only insight fails with TypeError for every key
\* and value and leaves cells unchanged; a get through it for a key of the
\* resolver returns what the store's get returns for the resolved location.
C8_ReadOnlyInsight ==
    [][ /\ (op'.name = "insight_set" /\ op'.read_only)
           => (result' = Error("TypeError") /\ cells' = cells)
        /\ ( /\ op'.name = "insight_get"
             /\ op'.read_only
             /\ op'.ikey \in DOMAIN Resolver(dims) )
           => /\ result' = BoardGetItem(cells, dims, Resolver(dims)[op'.ikey])
              /\ cells' = cells ]_vars

\* a set through a read-only insight was refused on a board holding values
C8_Witness ==
    /\ op.name = "insight_set"
    /\ op.read_only
    /\ op.ikey = "corner"
    /\ result = Error("TypeError")
    /\ NonEmpty

(***************************************************************************)
(* C9                                                                      *)
(***************************************************************************)
\* C9: a store get or set with a key longer than ndim fails with
\* IndexError whatever its components are, and the set leaves cells
\* unchanged.
C9_TooManyDimensions ==
    [][ (op'.name \in StoreOps /\ Len(op'.key.comps) > Ndim(dims))
        => (result' = Error("IndexError") /\ cells' = cells) ]_vars

\* a set with too long a key holding an unknown label was refused
C9_Witness ==
    /\ op.name = "set"
    /\ Len(op.key.comps) > Ndim(dims)
    /\ \E k \in 1..Len(op.key.comps) : op.key.comps[k] = StrKey(<<"z">>)
    /\ result = Error("IndexError")
    /\ NonEmpty

(***************************************************************************)
(* C10                                                                     *)
(***************************************************************************)
\* C10: a get with a partial key whose components are all in range returns
\* an axis view whose path is the normalized key and whose dimension is
\* shape[k], whatever cells holds, and leaves cells unchanged.
C10_PartialGetReturnsView ==
    [][ (op'.name = "get" /\ PartialKey(dims, op'.key))
        => /\ result' = NewBoardAxis(Normalized(dims, op'.key),
                                     Len(op'.key.comps), FALSE)
           /\ dims[result'.dim + 1] = dims[Len(op'.key.comps) + 1]
           /\ cells' = cells ]_vars

\* a view was returned for a prefix under which no cell is stored, on a
\* board that holds other cells
C10_Witness ==
    /\ op.name = "get"
    /\ PartialKey(dims, op.key)
    /\ result.kind = "view"
    /\ NonEmpty
    /\ \A c \in DOMAIN cells : ~IsPrefix(result.path, c)

=============================================================================
